---- MODULE Spec2Model ----
(***************************************************************************)
(* Fitness tracker: the Training hierarchy (Running, SportsWalking,        *)
(* Swimming), InfoMessage and read_package, as written in                  *)
(* src/fitness_tracker.py and src/homework.py.                             *)
(*                                                                         *)
(* Numbers are exact rationals [exc, n, d] with d > 0 and gcd(n, d) = 1;   *)
(* the decimal literals of the source (0.65, 1.38, 0.035, 0.029, 1.1) are  *)
(* the rationals they denote.  A number whose exc field is not "none" is   *)
(* a raised exception, which every arithmetic operator propagates.         *)
(***************************************************************************)
EXTENDS Integers, Sequences, FiniteSets, TLC

VARIABLES module, workout_type, data, training, ret, reports

vars == <<module, workout_type, data, training, ret, reports>>

(***************************************************************************)
(* Bounds of the model                                                     *)
(***************************************************************************)
\* longest reading list that is tried (Swimming takes 5 values)
MaxLen == 5
\* durations 0..MaxDuration hours are tried
MaxDuration == 2
\* show_training_info results remembered for one record
MaxCalls == 2

Modules == {"fitness_tracker", "homework"}
Codes == {"SWM", "RUN", "WLK", "XXX"}

\* The values tried at each position of a reading list.
Field(i) ==
  CASE i = 1 -> {720, 9000, 15000}
    [] i = 2 -> 0..MaxDuration
    [] i = 3 -> {75, 80}
    [] i = 4 -> {0, 1, 25, 180}
    [] i = 5 -> {0, 40}
    [] OTHER -> {0}

\* the lists of length len whose i-th element is drawn from Field(i)
RECURSIVE Lists(_)
Lists(len) ==
  IF len = 0 THEN {<<>>}
  ELSE {Append(s, v) : s \in Lists(len - 1), v \in Field(len)}

\* the reading lists tried: too short, exact and too long for each class
Readings == UNION {Lists(len) : len \in 2..MaxLen}

(***************************************************************************)
(* Python arithmetic on exact rationals                                    *)
(***************************************************************************)
Abs(i) == IF i < 0 THEN -i ELSE i

RECURSIVE GCD(_, _)
GCD(a, b) == IF b = 0 THEN a ELSE GCD(b, a % b)

\* the rational n/d (d # 0) in lowest terms with a positive denominator
Rat(n, d) ==
  LET g == GCD(Abs(n), Abs(d))
      s == IF d < 0 THEN -1 ELSE 1
  IN  [exc |-> "none", n |-> (s * n) \div g, d |-> (s * d) \div g]

Num(i) == Rat(i, 1)

ZeroDivisionError == [exc |-> "ZeroDivisionError", n |-> 0, d |-> 1]

Raised(x) == x.exc # "none"

Add(x, y) ==
  IF Raised(x) THEN x ELSE IF Raised(y) THEN y
  ELSE Rat(x.n * y.d + y.n * x.d, x.d * y.d)

Sub(x, y) ==
  IF Raised(x) THEN x ELSE IF Raised(y) THEN y
  ELSE Rat(x.n * y.d - y.n * x.d, x.d * y.d)

Mul(x, y) ==
  IF Raised(x) THEN x ELSE IF Raised(y) THEN y
  ELSE Rat(x.n * y.n, x.d * y.d)

\* x / y that answers 0 for a zero divisor instead of raising
TrueDivNoRaise(x, y) ==
  IF Raised(x) THEN x ELSE IF Raised(y) THEN y
  ELSE IF y.n = 0 THEN Num(0)
  ELSE Rat(x.n * y.d, x.d * y.n)

\* x / y
TrueDiv(x, y) ==
  IF Raised(x) THEN x ELSE IF Raised(y) THEN y
  ELSE IF y.n = 0 THEN ZeroDivisionError
  ELSE Rat(x.n * y.d, x.d * y.n)

\* x // y
FloorDiv(x, y) ==
  IF Raised(x) THEN x ELSE IF Raised(y) THEN y
  ELSE IF y.n = 0 THEN ZeroDivisionError
  ELSE LET q == Rat(x.n * y.d, x.d * y.n) IN Num(q.n \div q.d)

\* x ** 2
Pow2(x) == Mul(x, x)

(***************************************************************************)
(* Class attributes                                                        *)
(***************************************************************************)
\* LEN_STEP is 0.65 whatever the class
LEN_STEP_Shared(cls) == Rat(65, 100)

\* cls.LEN_STEP: Swimming overrides the 0.65 of Training with 1.38
LEN_STEP(cls) == IF cls = "Swimming" THEN Rat(138, 100) ELSE Rat(65, 100)

M_IN_KM == 1000
Running_MIN_IN_HOUR == 60
SportsWalking_MIN_IN_HOUR == 60
Running_MEAN_SPEED_MULTIPLIER == 18
Running_MEAN_SPEED_SUBTRAHEND == 20
WEIGHT_MULTIPIER == Rat(35, 1000)
SPEED_BY_HEIGHT_MULTIPLIER == Rat(29, 1000)
MEAN_SPEED_ADDENDUM == Rat(11, 10)
Swimming_MEAN_SPEED_MULTIPLIER == 2

(***************************************************************************)
(* Constructors                                                            *)
(***************************************************************************)
None == [cls |-> "NoneType"]

\* Training.__init__ with duration and weight stored in each other's field
Training_init_Swapped(cls, action, duration, weight) ==
  [cls |-> cls, action |-> action, duration |-> weight, weight |-> duration]

Training_init(cls, action, duration, weight) ==
  [cls |-> cls, action |-> action, duration |-> duration, weight |-> weight]

SportsWalking_init(action, duration, weight, height) ==
  Training_init("SportsWalking", action, duration, weight)
    @@ [height |-> height]

Swimming_init(action, duration, weight, length_pool, count_pool) ==
  Training_init("Swimming", action, duration, weight)
    @@ [length_pool |-> length_pool, count_pool |-> count_pool]

\* number of positional parameters of cls.__init__ besides self
Arity(cls) ==
  CASE cls = "Running" -> 3
    [] cls = "SportsWalking" -> 4
    [] cls = "Swimming" -> 5

\* cls(*args): a call with the wrong number of arguments raises TypeError
Construct(cls, args) ==
  IF Len(args) # Arity(cls)
  THEN [exc |-> "TypeError", msg |-> <<cls, Len(args)>>, val |-> None]
  ELSE [exc |-> "none", msg |-> <<>>, val |->
         CASE cls = "Running" ->
                Training_init("Running", args[1], args[2], args[3])
           [] cls = "SportsWalking" ->
                SportsWalking_init(args[1], args[2], args[3], args[4])
           [] cls = "Swimming" ->
                Swimming_init(args[1], args[2], args[3], args[4], args[5])]

(***************************************************************************)
(* Dispatch                                                                *)
(***************************************************************************)
ALL_ACTIVITIES ==
  [c \in {"SWM", "RUN", "WLK"} |->
     CASE c = "SWM" -> "Swimming"
       [] c = "RUN" -> "Running"
       [] c = "WLK" -> "SportsWalking"]

\* fitness_tracker.read_package
read_package_ft(wt, d) ==
  IF wt \notin DOMAIN ALL_ACTIVITIES
  THEN [exc |-> "KeyError", msg |-> <<"unknown workout type", wt>>,
        val |-> None]
  ELSE Construct(ALL_ACTIVITIES[wt], d)

\* homework.read_package: `training` is bound only under the `if`, so the
\* `return training` of an unknown code raises UnboundLocalError
read_package_hw(wt, d) ==
  IF wt \in DOMAIN ALL_ACTIVITIES
  THEN Construct(ALL_ACTIVITIES[wt], d)
  ELSE [exc |-> "UnboundLocalError", msg |-> <<"training">>, val |-> None]

read_package(m, wt, d) ==
  IF m = "fitness_tracker" THEN read_package_ft(wt, d)
  ELSE read_package_hw(wt, d)

(***************************************************************************)
(* Methods                                                                 *)
(***************************************************************************)
Training_get_distance(m, self) ==
  IF m = "fitness_tracker"
  THEN \* self.action * self.LEN_STEP / self.M_IN_KM
       TrueDiv(Mul(Num(self.action), LEN_STEP(self.cls)), Num(M_IN_KM))
  ELSE \* self.action * Training.LEN_STEP / Training.M_IN_KM
       TrueDiv(Mul(Num(self.action), LEN_STEP("Training")), Num(M_IN_KM))

\* homework.Swimming.get_distance
Swimming_get_distance(self) ==
  TrueDiv(Mul(Num(self.action), LEN_STEP("Swimming")), Num(M_IN_KM))

\* self.get_distance(): only homework.Swimming overrides it
get_distance(m, self) ==
  IF m = "homework" /\ self.cls = "Swimming"
  THEN Swimming_get_distance(self)
  ELSE Training_get_distance(m, self)

\* the distance multiplied by the duration
Training_get_mean_speed_Times(m, self) ==
  Mul(get_distance(m, self), Num(self.duration))

Training_get_mean_speed(m, self) ==
  TrueDiv(get_distance(m, self), Num(self.duration))

\* the pool distance left in metres
Swimming_get_mean_speed_Metres(self) ==
  TrueDiv(Mul(Num(self.length_pool), Num(self.count_pool)),
          Num(self.duration))

Swimming_get_mean_speed(self) ==
  TrueDiv(TrueDiv(Mul(Num(self.length_pool), Num(self.count_pool)),
                  Num(M_IN_KM)),
          Num(self.duration))

\* self.get_mean_speed(): Swimming overrides it in both modules
get_mean_speed(m, self) ==
  IF self.cls = "Swimming"
  THEN Swimming_get_mean_speed(self)
  ELSE Training_get_mean_speed(m, self)

\* the duration left in hours
Running_get_spent_calories_Hours(m, self) ==
  Mul(TrueDiv(Mul(Sub(Mul(Num(Running_MEAN_SPEED_MULTIPLIER),
                          get_mean_speed(m, self)),
                      Num(Running_MEAN_SPEED_SUBTRAHEND)),
                  Num(self.weight)),
              Num(M_IN_KM)),
      Num(self.duration))

Running_get_spent_calories(m, self) ==
  IF m = "fitness_tracker"
  THEN LET mean_speed_transf ==
             Sub(Mul(Num(Running_MEAN_SPEED_MULTIPLIER),
                     get_mean_speed(m, self)),
                 Num(Running_MEAN_SPEED_SUBTRAHEND))
           duration_in_min ==
             Mul(Num(self.duration), Num(Running_MIN_IN_HOUR))
       IN  Mul(TrueDiv(Mul(mean_speed_transf, Num(self.weight)),
                       Num(M_IN_KM)),
               duration_in_min)
  ELSE Mul(Mul(TrueDiv(Mul(Sub(Mul(Num(Running_MEAN_SPEED_MULTIPLIER),
                                   get_mean_speed(m, self)),
                               Num(Running_MEAN_SPEED_SUBTRAHEND)),
                           Num(self.weight)),
                       Num(M_IN_KM)),
               Num(self.duration)),
           Num(Running_MIN_IN_HOUR))

\* true division where the source divides with //
SportsWalking_get_spent_calories_TrueDiv(m, self) ==
  LET weight_transf == Mul(WEIGHT_MULTIPIER, Num(self.weight))
      sq_speed_by_h_w ==
        Mul(Mul(TrueDiv(Pow2(get_mean_speed(m, self)), Num(self.height)),
                SPEED_BY_HEIGHT_MULTIPLIER),
            Num(self.weight))
      duration_in_min ==
        Mul(Num(self.duration), Num(SportsWalking_MIN_IN_HOUR))
  IN  Mul(Add(weight_transf, sq_speed_by_h_w), duration_in_min)

SportsWalking_get_spent_calories(m, self) ==
  IF m = "fitness_tracker"
  THEN LET weight_transf == Mul(WEIGHT_MULTIPIER, Num(self.weight))
           sq_speed_by_h_w ==
             Mul(Mul(FloorDiv(Pow2(get_mean_speed(m, self)),
                              Num(self.height)),
                     SPEED_BY_HEIGHT_MULTIPLIER),
                 Num(self.weight))
           duration_in_min ==
             Mul(Num(self.duration), Num(SportsWalking_MIN_IN_HOUR))
       IN  Mul(Add(weight_transf, sq_speed_by_h_w), duration_in_min)
  ELSE Mul(Mul(Add(Mul(WEIGHT_MULTIPIER, Num(self.weight)),
                   Mul(Mul(FloorDiv(Pow2(get_mean_speed(m, self)),
                                    Num(self.height)),
                           SPEED_BY_HEIGHT_MULTIPLIER),
                       Num(self.weight))),
               Num(self.duration)),
           Num(SportsWalking_MIN_IN_HOUR))

\* the speed taken from the stroke distance, not from get_mean_speed
Swimming_get_spent_calories_Strokes(m, self) ==
  Mul(Mul(Add(Training_get_mean_speed(m, self), MEAN_SPEED_ADDENDUM),
          Num(Swimming_MEAN_SPEED_MULTIPLIER)),
      Num(self.weight))

Swimming_get_spent_calories(m, self) ==
  Mul(Mul(Add(get_mean_speed(m, self), MEAN_SPEED_ADDENDUM),
          Num(Swimming_MEAN_SPEED_MULTIPLIER)),
      Num(self.weight))

get_spent_calories(m, self) ==
  CASE self.cls = "Running" -> Running_get_spent_calories(m, self)
    [] self.cls = "SportsWalking" -> SportsWalking_get_spent_calories(m, self)
    [] self.cls = "Swimming" -> Swimming_get_spent_calories(m, self)

InfoMessage_init(training_type, duration, distance, speed, calories) ==
  [training_type |-> training_type, duration |-> duration,
   distance |-> distance, speed |-> speed, calories |-> calories]

\* the arguments of InfoMessage are evaluated left to right; the first
\* exception leaves the call and no InfoMessage is built
show_training_info(m, self) ==
  LET distance == get_distance(m, self)
      speed == get_mean_speed(m, self)
      calories == get_spent_calories(m, self)
  IN  IF Raised(distance) THEN [exc |-> distance.exc, val |-> None]
      ELSE IF Raised(speed) THEN [exc |-> speed.exc, val |-> None]
      ELSE IF Raised(calories) THEN [exc |-> calories.exc, val |-> None]
      ELSE [exc |-> "none",
            val |-> InfoMessage_init(self.cls, self.duration, distance,
                                     speed, calories)]

(***************************************************************************)
(* The caller: one reading at a time is dispatched, then the methods of    *)
(* the record are called; the next reading is taken once the summary of    *)
(* the record was produced.  Nothing catches an exception: the one that    *)
(* is raised stays in ret and the run ends there.                          *)
(***************************************************************************)
Init ==
  /\ module \in Modules
  /\ workout_type = "none"
  /\ data = <<>>
  /\ training = None
  /\ ret = [op |-> "start", exc |-> "none"]
  /\ reports = <<>>

ReadPackage ==
  /\ ret.exc = "none"
  /\ ret.op \in {"start", "show_training_info"}
  /\ \E wt \in Codes, d \in Readings :
       LET r == read_package(module, wt, d)
       IN  /\ workout_type' = wt
           /\ data' = d
           /\ ret' = [op |-> "read_package", exc |-> r.exc, msg |-> r.msg,
                      val |-> r.val]
           /\ training' = r.val
  /\ reports' = <<>>
  /\ UNCHANGED module

GetDistance ==
  /\ ret.exc = "none"
  /\ training # None
  /\ LET r == get_distance(module, training)
     IN  ret' = [op |-> "get_distance", exc |-> r.exc, val |-> r]
  /\ UNCHANGED <<module, workout_type, data, training, reports>>

GetMeanSpeed ==
  /\ ret.exc = "none"
  /\ training # None
  /\ LET r == get_mean_speed(module, training)
     IN  ret' = [op |-> "get_mean_speed", exc |-> r.exc, val |-> r]
  /\ UNCHANGED <<module, workout_type, data, training, reports>>

GetSpentCalories ==
  /\ ret.exc = "none"
  /\ training # None
  /\ LET r == get_spent_calories(module, training)
     IN  ret' = [op |-> "get_spent_calories", exc |-> r.exc, val |-> r]
  /\ UNCHANGED <<module, workout_type, data, training, reports>>

\* show_training_info that keeps the duration in minutes on the record
ShowTrainingInfoStoring ==
  /\ ret.exc = "none"
  /\ training # None
  /\ Len(reports) < MaxCalls
  /\ LET r == show_training_info(module, training)
     IN  /\ ret' = [op |-> "show_training_info", exc |-> r.exc, val |-> r.val]
         /\ reports' = IF r.exc = "none" THEN Append(reports, r.val)
                       ELSE reports
  /\ training' = [training EXCEPT !.duration = @ * 60]
  /\ UNCHANGED <<module, workout_type, data>>

ShowTrainingInfo ==
  /\ ret.exc = "none"
  /\ training # None
  /\ Len(reports) < MaxCalls
  /\ LET r == show_training_info(module, training)
     IN  /\ ret' = [op |-> "show_training_info", exc |-> r.exc, val |-> r.val]
         /\ reports' = IF r.exc = "none" THEN Append(reports, r.val)
                       ELSE reports
  /\ UNCHANGED <<module, workout_type, data, training>>

Next ==
  \/ ReadPackage
  \/ GetDistance
  \/ GetMeanSpeed
  \/ GetSpentCalories
  \/ ShowTrainingInfo

Spec == Init /\ [][Next]_vars

TypeOK ==
  /\ module \in Modules
  /\ training.cls \in {"NoneType", "Running", "SportsWalking", "Swimming"}
  /\ Len(reports) <= MaxCalls

(***************************************************************************)
(* Properties                                                              *)
(***************************************************************************)
KnownCodes == {"SWM", "RUN", "WLK"}

FieldCount(wt) ==
  CASE wt = "RUN" -> 3
    [] wt = "WLK" -> 4
    [] wt = "SWM" -> 5

\* the record a correctly sized reading list is to give, field by field
Positional(wt, d) ==
  CASE wt = "RUN" ->
         [cls |-> "Running", action |-> d[1], duration |-> d[2],
          weight |-> d[3]]
    [] wt = "WLK" ->
         [cls |-> "SportsWalking", action |-> d[1], duration |-> d[2],
          weight |-> d[3], height |-> d[4]]
    [] wt = "SWM" ->
         [cls |-> "Swimming", action |-> d[1], duration |-> d[2],
          weight |-> d[3], length_pool |-> d[4], count_pool |-> d[5]]

\* x rounded to two decimals, in hundredths (x >= 0)
Hundredths(x) == (200 * x.n + x.d) \div (2 * x.d)

Returned(op) == ret.op = op /\ ret.exc = "none"

\* C1: read_package with a known code and a reading list of that variant's
\* field count (RUN 3, WLK 4, SWM 5) returns a record of the matching
\* variant whose fields are the list elements in the order action, duration,
\* weight[, height | length_pool, count_pool].
C1_DispatchPositional ==
  (ret.op = "read_package" /\ workout_type \in KnownCodes
     /\ Len(data) = FieldCount(workout_type))
  => /\ ret.exc = "none"
     /\ ret.val = Positional(workout_type, data)
     /\ training = ret.val

C1_Witness ==
  /\ ret.op = "read_package"
  /\ workout_type = "SWM"
  /\ data = <<720, 1, 80, 25, 40>>
  /\ training.cls = "Swimming"
  /\ training.count_pool = 40

\* C2: read_package with a code other than SWM, RUN, WLK fails with an
\* unrecognized-activity-type error that identifies the offending code, and
\* no record is constructed or returned.
C2_UnknownCodeReported ==
  (ret.op = "read_package" /\ workout_type \notin KnownCodes)
  => /\ ret.exc = "KeyError"
     /\ ret.msg[Len(ret.msg)] = workout_type
     /\ ret.val = None
     /\ training = None

StepSpeed(self) == Rat(self.action * 65, 100000 * self.duration)

\* C5: for a Running record with nonzero duration get_spent_calories is
\* (18 * mean_speed - 20) * weight / 1000 * duration * 60 with
\* mean_speed = action * 0.65 / 1000 / duration.
C5_RunningCalories ==
  (ret.op = "get_spent_calories" /\ training.cls = "Running"
     /\ training.duration # 0)
  => ret.val =
       Mul(Mul(TrueDiv(Mul(Sub(Mul(Num(18), StepSpeed(training)), Num(20)),
                           Num(training.weight)),
                       Num(1000)),
               Num(training.duration)),
           Num(60))

C5_Witness ==
  /\ Returned("get_spent_calories")
  /\ training.cls = "Running"
  /\ training.duration = 2
  /\ training.action = 15000

\* C6 as stated: the Report of read_package('RUN', [15000, 1, 75]) has
\* distance 9.75 km, mean speed 9.75 km/h and calories 719.55 to two decimals.
C6_RunSample71955 ==
  (Returned("show_training_info") /\ workout_type = "RUN"
     /\ data = <<15000, 1, 75>>)
  => /\ ret.val.distance = Rat(975, 100)
     /\ ret.val.speed = Rat(975, 100)
     /\ Hundredths(ret.val.calories) = 71955

\* C6 as amended: the Report of read_package('RUN', [15000, 1, 75]) has
\* distance 9.75 km, mean speed 9.75 km/h and calories 699.75.
C6_RunSample69975 ==
  (Returned("show_training_info") /\ workout_type = "RUN"
     /\ data = <<15000, 1, 75>>)
  => /\ ret.val.training_type = "Running"
     /\ ret.val.distance = Rat(975, 100)
     /\ ret.val.speed = Rat(975, 100)
     /\ ret.val.calories = Rat(69975, 100)
     /\ Hundredths(ret.val.calories) = 69975

C6_Witness ==
  /\ Returned("show_training_info")
  /\ workout_type = "RUN"
  /\ data = <<15000, 1, 75>>
  /\ training.cls = "Running"

\* floor(mean_speed^2 / height) for a step-based record, height > 0
FloorTerm(self) ==
  LET v == StepSpeed(self)
  IN  (v.n * v.n) \div (v.d * v.d * self.height)

\* C7: for a SportsWalking record with nonzero duration and positive height
\* get_spent_calories is (0.035 * weight + floor(mean_speed^2 / height)
\* * 0.029 * weight) * duration * 60, the floor taken of mean_speed^2 / height
\* alone and the height as supplied; for [9000, 1, 75, 180] the floor term is
\* 0 and the result is 0.035 * 75 * 60.
C7_WalkingCalories ==
  /\ (ret.op = "get_spent_calories" /\ training.cls = "SportsWalking"
        /\ training.duration # 0 /\ training.height > 0)
     => ret.val =
          Mul(Mul(Add(Mul(Rat(35, 1000), Num(training.weight)),
                      Mul(Mul(Num(FloorTerm(training)), Rat(29, 1000)),
                          Num(training.weight))),
                  Num(training.duration)),
              Num(60))
  /\ (ret.op = "get_spent_calories" /\ workout_type = "WLK"
        /\ data = <<9000, 1, 75, 180>>)
     => /\ FloorTerm(training) = 0
        /\ ret.val = Rat(35 * 75 * 60, 1000)

C7_Witness ==
  /\ Returned("get_spent_calories")
  /\ training = Positional("WLK", <<9000, 1, 75, 1>>)
  /\ FloorTerm(training) = 34

\* C8: for a Swimming record with nonzero duration get_spent_calories is
\* (mean_speed + 1.1) * 2 * weight, mean_speed being the speed the record
\* reports; for [720, 1, 80, 25, 40] the speed is 1.0 km/h and the calories
\* are 336.0.
C8_SwimmingCalories ==
  /\ (ret.op = "get_spent_calories" /\ training.cls = "Swimming"
        /\ training.duration # 0)
     => ret.val =
          Mul(Mul(Add(Rat(training.length_pool * training.count_pool,
                          1000 * training.duration),
                      Rat(11, 10)),
                  Num(2)),
              Num(training.weight))
  /\ (Returned("show_training_info") /\ training.cls = "Swimming")
     => ret.val.calories =
          Mul(Mul(Add(ret.val.speed, Rat(11, 10)), Num(2)),
              Num(training.weight))
  /\ (Returned("show_training_info") /\ workout_type = "SWM"
        /\ data = <<720, 1, 80, 25, 40>>)
     => /\ ret.val.speed = Num(1)
        /\ ret.val.calories = Num(336)

C8_Witness ==
  /\ Returned("show_training_info")
  /\ training = Positional("SWM", <<720, 1, 80, 25, 40>>)
  /\ ret.val.calories = Num(336)

\* C9: with duration = 0, get_mean_speed and show_training_info of every
\* variant end in a division-by-zero error and give no value and no Report;
\* so do get_spent_calories and show_training_info of a SportsWalking record
\* with height = 0 and nonzero duration.
C9_DivisionByZeroRaised ==
  /\ (ret.op \in {"get_mean_speed", "show_training_info"}
        /\ training.duration = 0)
     => /\ ret.exc = "ZeroDivisionError"
        /\ reports = <<>>
        /\ ret.op = "show_training_info" => ret.val = None
  /\ (ret.op \in {"get_spent_calories", "show_training_info"}
        /\ training.cls = "SportsWalking" /\ training.height = 0
        /\ training.duration # 0)
     => /\ ret.exc = "ZeroDivisionError"
        /\ reports = <<>>
        /\ ret.op = "show_training_info" => ret.val = None

C9_Witness ==
  /\ ret.op = "show_training_info"
  /\ ret.exc = "ZeroDivisionError"
  /\ training.cls = "Swimming"
  /\ training.duration = 0

\* C10: the four methods leave every field of the record as it was, and any
\* two show_training_info calls on the same record return equal Reports.
C10_NoSideEffects ==
  /\ [][ret'.op # "read_package" => training' = training]_vars
  /\ [](\A i, j \in 1..Len(reports) : reports[i] = reports[j])

C10_Witness ==
  /\ Returned("show_training_info")
  /\ Len(reports) = 2
  /\ reports[1] = reports[2]
  /\ training.cls = "SportsWalking"

====
